---- MODULE Spec2Model ----
(***************************************************************************)
(* Model of the NodeJS wrapper of the EJDB engine (src/ejdb.js).           *)
(*                                                                         *)
(* The wrapper keeps no state of its own besides the native handle, so a   *)
(* behaviour of the model is a sequence of wrapper calls made by a client, *)
(* each with freshly chosen arguments, and of the native engine's          *)
(* responses to the asynchronous ones.  The variables hold the last call,  *)
(* the JavaScript heap before and after it, what was handed to the engine, *)
(* what the engine answered, what the user's callback received and what    *)
(* the wrapper returned.  Every call overwrites all of them, so the states *)
(* that sequences of calls reach are the states that one call reaches: a   *)
(* behaviour holds one call and, for an asynchronous call, the engine's    *)
(* answer to it.  The engine's own state, which the wrapper hands through  *)
(* (the collections and their transactions: tx, colls), is the subject of  *)
(* a second specification, SpecEngine, in which calls follow one another.  *)
(***************************************************************************)
EXTENDS Integers, Sequences, FiniteSets

VARIABLES call, heap0, heap, qa, engine, eres, pending, cbLog, ret, cursor,
          raised, tx, colls

vars == <<call, heap0, heap, qa, engine, eres, pending, cbLog, ret, cursor,
          raised, tx, colls>>

(***************************************************************************)
(* Bounds of the model.                                                    *)
(***************************************************************************)
MaxOr == 2      \* longest array of OR-branch documents a client passes
MaxDocs == 2    \* longest array of documents a client saves
MaxRecs == 2    \* most records in a cursor the engine hands out

(***************************************************************************)
(* JavaScript values.  Every value is a record with a type tag t; objects  *)
(* live in the heap and are named by a reference, arrays carry their       *)
(* elements and an identity.                                               *)
(***************************************************************************)
Undef == [t |-> "undefined"]
Null == [t |-> "null"]
Str(s) == [t |-> "string", s |-> s]
Chars(cs) == [t |-> "string", chars |-> cs]
Oid(i) == [t |-> "string", oid |-> i]
Num(n) == [t |-> "number", n |-> n]
Bool(b) == [t |-> "boolean", b |-> b]
Fn(id) == [t |-> "function", id |-> id]
Obj(r) == [t |-> "object", ref |-> r]
Arr(id, es) == [t |-> "array", id |-> id, elems |-> es]
Rec(i) == [t |-> "record", idx |-> i]
CursorVal == [t |-> "cursor"]
Err == [t |-> "error"]
Omitted == [t |-> "omitted"]    \* marks an argument the caller left out

\* typeof v
TypeOf(v) ==
    CASE v.t \in {"null", "object", "array", "record", "cursor", "error"} -> "object"
      [] OTHER -> v.t

\* Array.isArray(v)
IsArray(v) == v.t = "array"

\* ToBoolean(v), as used by if (v), !v, v || d and c ? a : b
Truthy(v) ==
    CASE v.t \in {"undefined", "null"} -> FALSE
      [] v.t = "boolean" -> v.b
      [] v.t = "number" -> v.n # 0
      [] v.t = "string" -> v # Str("") /\ v # Chars(<<>>)
      [] OTHER -> TRUE

\* a || b
OrElse(a, b) == IF Truthy(a) THEN a ELSE b

\* arguments[i], undefined beyond arguments.length
Arg(args, i) == IF i < Len(args) THEN args[i + 1] ELSE Undef

(***************************************************************************)
(* The heap: the fields the wrapper reads or writes, of the objects it may  *)
(* read or write them of (the query object, the hints object of the caller *)
(* or of the wrapper, the documents to save).                              *)
(***************************************************************************)
Keys == {"_id", "$max", "$onlycount"}
Refs == {"q", "h", "dh", "o1", "o2"}
EmptyObj == [k \in Keys |-> Undef]
EmptyHeap == [r \in Refs |-> EmptyObj]

\* the fields of the document v as the engine reads them
Deref(h, v) ==
    IF v.t = "object" /\ v.ref \in DOMAIN h THEN h[v.ref] ELSE EmptyObj

\* o[k] = x; a property write on a non-object is silently dropped
SetField(h, v, k, x) ==
    IF v.t = "object" /\ v.ref \in DOMAIN h THEN [h EXCEPT ![v.ref][k] = x] ELSE h

\* the literals {} and [] the wrapper creates for omitted arguments
DefaultQobj == Obj("dq")
DefaultOrarr == Arr("dor", <<>>)
DefaultHints == Obj("dh")
DefaultOpts == Obj("dopts")

UserCb == Fn("ucb")
JBQRYCOUNT == 1

(***************************************************************************)
(* parseQueryArgs: the canonical 5-tuple [cname, qobj, orarr, hints, cb],  *)
(* or the thrown error when cname is not a string.                         *)
(***************************************************************************)
ParseQueryArgs_NoOrarr(args) ==
    LET cname == Arg(args, 0)
        n1 == Arg(args, 1)
        cb1 == IF TypeOf(n1) = "function" THEN n1 ELSE Undef
        qobj == IF TypeOf(n1) = "function" THEN Undef ELSE n1
        n2 == Arg(args, 2)
        isObj == TypeOf(n2) = "object"
        hints1 == IF isObj THEN n2 ELSE Undef
        n3 == IF isObj THEN Arg(args, 3) ELSE n2
        cb == IF TypeOf(n3) = "function" THEN n3 ELSE cb1
    IN  IF TypeOf(cname) # "string"
        THEN [threw |-> TRUE, qa |-> <<>>]
        ELSE [threw |-> FALSE,
              qa |-> <<cname, OrElse(qobj, DefaultQobj), DefaultOrarr,
                       OrElse(hints1, DefaultHints), OrElse(cb, Null)>>]

ParseQueryArgs_NoCnameCheck(args) ==
    LET cname == Arg(args, 0)
        n1 == Arg(args, 1)
        cb1 == IF TypeOf(n1) = "function" THEN n1 ELSE Undef
        qobj == IF TypeOf(n1) = "function" THEN Undef ELSE n1
        n2 == Arg(args, 2)
        isArr == IsArray(n2)
        isObj == ~isArr /\ TypeOf(n2) = "object"
        orarr == IF isArr THEN n2 ELSE IF isObj THEN Null ELSE Undef
        hints1 == IF isObj THEN n2 ELSE Undef
        i3 == IF isArr \/ isObj THEN 3 ELSE 2
        n3 == IF isArr \/ isObj THEN Arg(args, 3) ELSE n2
        take == ~Truthy(hints1) /\ TypeOf(n3) = "object"
        hints == IF take THEN n3 ELSE hints1
        n4 == IF take THEN Arg(args, i3 + 1) ELSE n3
        cb == IF TypeOf(n4) = "function" THEN n4 ELSE cb1
    IN  IF n2 = Undef
        THEN [threw |-> FALSE,
              qa |-> <<cname, OrElse(qobj, DefaultQobj), DefaultOrarr,
                       DefaultHints, OrElse(cb1, Null)>>]
        ELSE [threw |-> FALSE,
              qa |-> <<cname, OrElse(qobj, DefaultQobj),
                       OrElse(orarr, DefaultOrarr),
                       OrElse(hints, DefaultHints), OrElse(cb, Null)>>]

ParseQueryArgs(args) ==
    LET cname == Arg(args, 0)
        n1 == Arg(args, 1)
        cb1 == IF TypeOf(n1) = "function" THEN n1 ELSE Undef
        qobj == IF TypeOf(n1) = "function" THEN Undef ELSE n1
        n2 == Arg(args, 2)
        isArr == IsArray(n2)
        isObj == ~isArr /\ TypeOf(n2) = "object"
        orarr == IF isArr THEN n2 ELSE IF isObj THEN Null ELSE Undef
        hints1 == IF isObj THEN n2 ELSE Undef
        i3 == IF isArr \/ isObj THEN 3 ELSE 2
        n3 == IF isArr \/ isObj THEN Arg(args, 3) ELSE n2
        take == ~Truthy(hints1) /\ TypeOf(n3) = "object"
        hints == IF take THEN n3 ELSE hints1
        n4 == IF take THEN Arg(args, i3 + 1) ELSE n3
        cb == IF TypeOf(n4) = "function" THEN n4 ELSE cb1
    IN  IF TypeOf(cname) # "string"
        THEN [threw |-> TRUE, qa |-> <<>>]
        ELSE IF n2 = Undef
        THEN [threw |-> FALSE,
              qa |-> <<cname, OrElse(qobj, DefaultQobj), DefaultOrarr,
                       DefaultHints, OrElse(cb1, Null)>>]
        ELSE [threw |-> FALSE,
              qa |-> <<cname, OrElse(qobj, DefaultQobj),
                       OrElse(orarr, DefaultOrarr),
                       OrElse(hints, DefaultHints), OrElse(cb, Null)>>]

(***************************************************************************)
(* [qa[1]].concat(qa[2], qa[3]): concat spreads an array argument and      *)
(* appends any other argument as one element.                              *)
(***************************************************************************)
ConcatArg(v) == IF IsArray(v) THEN v.elems ELSE <<v>>

QueryDocs_HintsFirst(q) == <<q[2]>> \o ConcatArg(q[4]) \o ConcatArg(q[3])

QueryDocs(q) == <<q[2]>> \o ConcatArg(q[3]) \o ConcatArg(q[4])

\* the arguments of this._impl.query(cname, docs, flags, cb); vals are the
\* documents' fields as they are when the engine receives them
EngineQuery(q, h, flags, cb) ==
    [fn |-> "query", cname |-> q[1], docs |-> QueryDocs(q),
     vals |-> [i \in 1..Len(QueryDocs(q)) |-> Deref(h, QueryDocs(q)[i])],
     flags |-> flags, cb |-> cb]

\* (qa[3]["$onlycount"] ? ejdblib.JBQRYCOUNT : 0)
FindFlags(h, q) ==
    IF Truthy(Deref(h, q[4])["$onlycount"]) THEN JBQRYCOUNT ELSE 0

\* qa[3]["$max"] = 1
FindOneHints_KeepMax(h, q) ==
    IF Deref(h, q[4])["$max"] = Undef THEN SetField(h, q[4], "$max", Num(1)) ELSE h

FindOneHints(h, q) == SetField(h, q[4], "$max", Num(1))

\* the flags update and count pass
CountFlags_FromHints(h, q) == FindFlags(h, q)

CountFlags(h, q) == JBQRYCOUNT

(***************************************************************************)
(* The cursor the engine hands out: len records, the position of the       *)
(* current record (0 before the first), and the methods called on it.      *)
(***************************************************************************)
NoCursor == [exists |-> FALSE, len |-> 0, pos |-> 0, closed |-> FALSE, log |-> <<>>]
NewCursor(n) == [exists |-> TRUE, len |-> n, pos |-> 0, closed |-> FALSE, log |-> <<>>]

\* cursor.next(): the value returned, and the cursor afterwards
HasNext(c) == c.pos < c.len
CursorNext(c) ==
    [c EXCEPT !.pos = IF HasNext(c) THEN c.pos + 1 ELSE c.pos,
              !.log = Append(@, "next")]
\* cursor.object()
CursorObject(c) == [c EXCEPT !.log = Append(@, "object")]
CurrentRecord(c) == Rec(c.pos)
\* cursor.close()
CursorClose(c) == [c EXCEPT !.closed = TRUE, !.log = Append(@, "close")]

(***************************************************************************)
(* What the engine may answer to a call: it fails, or it succeeds with n   *)
(* records (a cursor, or their count).                                     *)
(***************************************************************************)
Outcomes == [ok : BOOLEAN, n : 0..MaxRecs]

Returned(v) == [kind |-> "return", v |-> v]
Thrown(v) == [kind |-> "throw", v |-> v]
NoResult == [kind |-> "none", v |-> Undef]
AsyncStarted == [kind |-> "async", v |-> Undef]

\* what a blocking engine query returns: the count in count-only mode, else
\* the cursor
QueryResult(flags, out) == IF flags = JBQRYCOUNT THEN Num(out.n) ELSE CursorVal

\* the arguments (err, cursor, count) the engine passes to a query callback
QueryCbArgs(flags, out) ==
    IF ~out.ok THEN <<Err>>
    ELSE IF flags = JBQRYCOUNT THEN <<Null, Null, Num(out.n)>>
    ELSE <<Null, CursorVal, Num(out.n)>>

(***************************************************************************)
(* The calls a client makes.  A query call is given by what the caller     *)
(* supplies: the collection name, and optionally the query object, the     *)
(* array of OR branches, the hints object and the callback, in one of the  *)
(* documented shapes; and the contents of the hints object.                *)
(***************************************************************************)
OrRefs == <<"b1", "b2", "b3">>
OrArrays == {Arr("or", [i \in 1..n |-> Obj(OrRefs[i])]) : n \in 0..MaxOr}
CNames == {Str("c"), Undef, Num(7)}
QueryGiven ==
    {g \in [cname : CNames,
            q : {Omitted, Obj("q")},
            or : {Omitted} \cup OrArrays,
            h : {Omitted, Obj("h")},
            cb : {Omitted, UserCb}] :
        (g.or # Omitted \/ g.h # Omitted) => g.q # Omitted}

Opt(v) == IF v = Omitted THEN <<>> ELSE <<v>>
QueryArgs(g) == <<g.cname>> \o Opt(g.q) \o Opt(g.or) \o Opt(g.h) \o Opt(g.cb)

HintsContents ==
    {[EmptyObj EXCEPT !["$max"] = m, !["$onlycount"] = c] :
        m \in {Undef, Num(5)},
        c \in {Undef, Bool(TRUE), Bool(FALSE), Num(0), Num(1)}}

Settle(c, h0, h1, q, e, er, p, log, r, cur) ==
    /\ call' = c
    /\ heap0' = h0
    /\ heap' = h1
    /\ qa' = q
    /\ engine' = e
    /\ eres' = er
    /\ pending' = p
    /\ cbLog' = log
    /\ ret' = r
    /\ cursor' = cur
    /\ raised' = FALSE
    /\ UNCHANGED <<tx, colls>>

\* the wrapper threw before it reached the engine
Fail(c, h0) ==
    Settle(c, h0, h0, <<>>, <<>>, NoResult, <<>>, <<>>, Thrown(Err), NoCursor)

\* a closure waiting for the engine's answer: the wrapper method that made
\* the call, who is called back ("user": the caller's function itself), and
\* the caller's function
Closure(op, to, cb, flags, jsarr) ==
    [op |-> op, to |-> to, cb |-> cb, flags |-> flags, jsarr |-> jsarr]

\* the collections of the database: the transactions active on each
\* (tx), and the options each was created under, Absent when there is no
\* such collection (colls)
CollNames == {"c", "d"}
Absent == [t |-> "absent"]

\* no call has been made yet
Idle == call.op = "none" /\ pending = <<>>

Init ==
    /\ call = [op |-> "none", args |-> <<>>, given |-> [cb |-> Omitted]]
    /\ heap0 = EmptyHeap
    /\ heap = EmptyHeap
    /\ qa = <<>>
    /\ engine = <<>>
    /\ eres = NoResult
    /\ pending = <<>>
    /\ cbLog = <<>>
    /\ ret = NoResult
    /\ cursor = NoCursor
    /\ raised = FALSE
    /\ tx = [c \in CollNames |-> 0]
    /\ colls = [c \in CollNames |-> Absent]

(***************************************************************************)
(* EJDB.prototype.find: the caller's callback goes to the engine as it is. *)
(***************************************************************************)
Find ==
    /\ Idle
    /\ \E g \in QueryGiven, hc \in HintsContents, out \in Outcomes :
        LET c == [op |-> "find", args |-> QueryArgs(g), given |-> g]
            h0 == [EmptyHeap EXCEPT !["h"] = hc]
            p == ParseQueryArgs(QueryArgs(g))
            q == p.qa
            flags == FindFlags(h0, q)
            e == EngineQuery(q, h0, flags, q[5])
        IN  IF p.threw THEN Fail(c, h0)
            ELSE IF TypeOf(q[5]) = "function"
            THEN Settle(c, h0, h0, q, <<e>>, AsyncStarted,
                        <<Closure("find", "user", q[5], flags, <<>>)>>,
                        <<>>, Returned(Undef), NoCursor)
            ELSE IF ~out.ok
            THEN Settle(c, h0, h0, q, <<e>>, Thrown(Err), <<>>, <<>>,
                        Thrown(Err), NoCursor)
            ELSE Settle(c, h0, h0, q, <<e>>, Returned(QueryResult(flags, out)),
                        <<>>, <<>>, Returned(QueryResult(flags, out)),
                        IF flags = JBQRYCOUNT THEN NoCursor ELSE NewCursor(out.n))

(***************************************************************************)
(* EJDB.prototype.findOne.                                                 *)
(***************************************************************************)
\* the blocking path once the engine has returned: the cursor afterwards
\* and the value returned
FindOneSync_CloseFirst(cur) ==
    LET c1 == CursorClose(CursorNext(cur))
        c2 == IF HasNext(cur) THEN CursorObject(c1) ELSE c1
    IN  [cursor |-> c2,
         ret |-> IF HasNext(cur) THEN CurrentRecord(c1) ELSE Null]

FindOneSync(cur) ==
    LET c1 == CursorNext(cur)
        c2 == IF HasNext(cur) THEN CursorObject(c1) ELSE c1
    IN  [cursor |-> CursorClose(c2),
         ret |-> IF HasNext(cur) THEN CurrentRecord(c1) ELSE Null]

\* function(err, cursor) of the callback path: the cursor afterwards and
\* the invocations of the caller's callback, each with its arguments
FindOneCallback(out, cur) ==
    IF ~out.ok THEN [cursor |-> cur, calls |-> <<<<Err>>>>]
    ELSE LET c1 == CursorNext(cur) IN
         IF HasNext(cur)
         THEN [cursor |-> CursorClose(CursorObject(c1)),
               calls |-> <<<<Null, CurrentRecord(c1)>>>>]
         ELSE [cursor |-> c1, calls |-> <<<<Null, Null>>>>]

FindOne ==
    /\ Idle
    /\ \E g \in QueryGiven, hc \in HintsContents, out \in Outcomes :
        LET c == [op |-> "findOne", args |-> QueryArgs(g), given |-> g]
            h0 == [EmptyHeap EXCEPT !["h"] = hc]
            p == ParseQueryArgs(QueryArgs(g))
            q == p.qa
            h1 == FindOneHints(h0, q)
            sync == FindOneSync(NewCursor(out.n))
        IN  IF p.threw THEN Fail(c, h0)
            ELSE IF Truthy(q[5])
            THEN Settle(c, h0, h1, q, <<EngineQuery(q, h1, 0, Fn("findOne"))>>,
                        AsyncStarted,
                        <<Closure("findOne", "wrapper", q[5], 0, <<>>)>>,
                        <<>>, Returned(Undef), NoCursor)
            ELSE IF ~out.ok
            THEN Settle(c, h0, h1, q, <<EngineQuery(q, h1, 0, q[5])>>,
                        Thrown(Err), <<>>, <<>>, Thrown(Err), NoCursor)
            ELSE Settle(c, h0, h1, q, <<EngineQuery(q, h1, 0, q[5])>>,
                        Returned(CursorVal), <<>>, <<>>,
                        Returned(sync.ret), sync.cursor)

(***************************************************************************)
(* EJDB.prototype.update and EJDB.prototype.count.                         *)
(***************************************************************************)
\* function(err, cursor, count, log): the invocations of the caller's
\* callback, each with its arguments (err, count)
CountCallback_NoReturn(out) ==
    IF ~out.ok THEN <<<<Err, Null>>, <<Null, Num(out.n)>>>>
    ELSE <<<<Null, Num(out.n)>>>>

CountCallback(out) ==
    IF ~out.ok THEN <<<<Err, Null>>>> ELSE <<<<Null, Num(out.n)>>>>

CountCall(op, g, hc, out) ==
    LET c == [op |-> op, args |-> QueryArgs(g), given |-> g]
        h0 == [EmptyHeap EXCEPT !["h"] = hc]
        p == ParseQueryArgs(QueryArgs(g))
        q == p.qa
        flags == CountFlags(h0, q)
    IN  IF p.threw THEN Fail(c, h0)
        ELSE IF Truthy(q[5])
        THEN Settle(c, h0, h0, q, <<EngineQuery(q, h0, flags, Fn(op))>>,
                    AsyncStarted,
                    <<Closure(op, "wrapper", q[5], flags, <<>>)>>,
                    <<>>, Returned(Undef), NoCursor)
        ELSE IF ~out.ok
        THEN Settle(c, h0, h0, q, <<EngineQuery(q, h0, flags, q[5])>>,
                    Thrown(Err), <<>>, <<>>, Thrown(Err), NoCursor)
        ELSE Settle(c, h0, h0, q, <<EngineQuery(q, h0, flags, q[5])>>,
                    Returned(QueryResult(flags, out)), <<>>, <<>>,
                    Returned(QueryResult(flags, out)), NoCursor)

Update ==
    /\ Idle
    /\ \E g \in QueryGiven, hc \in HintsContents, out \in Outcomes :
        /\ g.q # Omitted
        /\ CountCall("update", g, hc, out)

Count ==
    /\ Idle
    /\ \E g \in QueryGiven, hc \in HintsContents, out \in Outcomes :
        CountCall("count", g, hc, out)

(***************************************************************************)
(* EJDB.prototype.save.                                                    *)
(***************************************************************************)
DocRefs == {"o1", "o2"}
DocElems == {Obj(r) : r \in DocRefs} \cup {Null}
DocSeqs == UNION {[1..n -> DocElems] : n \in 0..MaxDocs}
SaveDocs == {Undef, Null, Num(0), Obj("o1")} \cup {Arr("docs", es) : es \in DocSeqs}
SaveGiven == [jsarr : SaveDocs, opts : {Omitted, Obj("opts")}, cb : {Omitted, UserCb}]
SaveArgs(g) == <<Str("c"), g.jsarr>> \o Opt(g.opts) \o Opt(g.cb)

\* the saved documents either carry the OID of an earlier save or none
StoredOid(r) == IF r = "o1" THEN Oid(-1) ELSE Oid(-2)
DocHeaps ==
    {[r \in Refs |-> IF r \in ids THEN [EmptyObj EXCEPT !["_id"] = StoredOid(r)]
                     ELSE EmptyObj] : ids \in SUBSET DocRefs}

\* the engine's save: the OID of each document, the one it carries or else
\* a new one; no OID for an element that is no document
EngineSaveOids(h, elems) ==
    [i \in 1..Len(elems) |->
        IF elems[i].t # "object" THEN Null
        ELSE IF Deref(h, elems[i])["_id"] # Undef THEN Deref(h, elems[i])["_id"]
        ELSE Oid(i)]

\* postprocess(oids): for (i = jsarr.length - 1; i >= 0; --i), here from
\* i down to 1
RECURSIVE PostprocessFrom(_, _, _, _)
PostprocessFrom(h, elems, oids, i) ==
    IF i = 0 THEN h
    ELSE LET so == elems[i]
             oid == IF i <= Len(oids) THEN oids[i] ELSE Undef
             h2 == IF so.t \notin {"null", "undefined"} /\ Deref(h, so)["_id"] # oid
                   THEN SetField(h, so, "_id", oid)
                   ELSE h
         IN  PostprocessFrom(h2, elems, oids, i - 1)

\* the same loop run upwards, for (i = 0; i < jsarr.length; ++i)
RECURSIVE PostprocessUp(_, _, _, _)
PostprocessUp(h, elems, oids, i) ==
    IF i > Len(elems) THEN h
    ELSE LET so == elems[i]
             oid == IF i <= Len(oids) THEN oids[i] ELSE Undef
             h2 == IF so.t \notin {"null", "undefined"} /\ Deref(h, so)["_id"] # oid
                   THEN SetField(h, so, "_id", oid)
                   ELSE h
         IN  PostprocessUp(h2, elems, oids, i + 1)

Postprocess_Ascending(h, elems, oids) == PostprocessUp(h, elems, oids, 1)

Postprocess(h, elems, oids) == PostprocessFrom(h, elems, oids, Len(elems))

\* function(err, oids) of the callback path: the heap afterwards and the
\* invocations of the caller's callback
SaveCallback(h, elems, ok, oids) ==
    IF ~ok THEN [heap |-> h, calls |-> <<<<Err>>>>]
    ELSE [heap |-> Postprocess(h, elems, oids),
          calls |-> <<<<Null, Arr("oids", oids)>>>>]

\* if (!Array.isArray(jsarr)) jsarr = [jsarr]
SaveArray(jsarr) == IF IsArray(jsarr) THEN jsarr ELSE Arr("wrap", <<jsarr>>)

\* the engine's answer to a save: the array of OIDs, in the shape that
\* the variable eres keeps
SaveAnswer(kind, ok, oids) ==
    [kind |-> kind, v |-> IF ok THEN Arr("oids", oids) ELSE Err]

Save ==
    /\ Idle
    /\ \E g \in SaveGiven, h0 \in DocHeaps, out \in Outcomes :
        LET args == SaveArgs(g)
            c == [op |-> "save", args |-> args, given |-> g]
            jsarr == SaveArray(Arg(args, 1))
            optsIsCb == TypeOf(Arg(args, 2)) = "function"
            cb == IF optsIsCb THEN Arg(args, 2) ELSE Arg(args, 3)
            opts == IF optsIsCb THEN Null ELSE Arg(args, 2)
            oids == EngineSaveOids(h0, jsarr.elems)
            e(f) == [fn |-> "save", cname |-> Arg(args, 0), jsarr |-> jsarr,
                     opts |-> OrElse(opts, DefaultOpts), cb |-> f]
        IN  IF ~Truthy(Arg(args, 1))
            THEN Settle(c, h0, h0, <<>>, <<>>, NoResult, <<>>, <<>>,
                        Returned(Arr("empty", <<>>)), NoCursor)
            ELSE IF cb.t \in {"null", "undefined"}
            THEN IF ~out.ok
                 THEN Settle(c, h0, h0, <<>>, <<e(Omitted)>>, Thrown(Err), <<>>,
                             <<>>, Thrown(Err), NoCursor)
                 ELSE Settle(c, h0, Postprocess(h0, jsarr.elems, oids), <<>>,
                             <<e(Omitted)>>, SaveAnswer("return", TRUE, oids),
                             <<>>, <<>>, Returned(jsarr), NoCursor)
            ELSE Settle(c, h0, h0, <<>>, <<e(Fn("save"))>>, AsyncStarted,
                        <<Closure("save", "wrapper", cb, 0, jsarr.elems)>>,
                        <<>>, Returned(Undef), NoCursor)

(***************************************************************************)
(* EJDB.prototype.dropCollection and its alias removeCollection.           *)
(***************************************************************************)
DropGiven == [prune : {Omitted, Bool(TRUE), Bool(FALSE)}, cb : {Omitted, UserCb}]
DropArgs(g) == <<Str("c")>> \o Opt(g.prune) \o Opt(g.cb)

\* the arguments of this._impl.removeCollection(cname, !!prune, cb)
DropEngineCall(args) ==
    LET cb0 == IF Len(args) = 2 THEN Arg(args, 1) ELSE Arg(args, 2)
        prune0 == IF Len(args) = 2 THEN Bool(FALSE) ELSE Arg(args, 1)
    IN  [fn |-> "removeCollection", cname |-> Arg(args, 0),
         prune |-> Truthy(prune0),
         cb |-> IF ~Truthy(cb0) THEN Fn("noop") ELSE cb0]

DropCall(op, g, out) ==
    LET args == DropArgs(g)
        c == [op |-> op, args |-> args, given |-> g]
        e == DropEngineCall(args)
    IN  IF TypeOf(e.cb) = "function"
        THEN Settle(c, EmptyHeap, EmptyHeap, <<>>, <<e>>, AsyncStarted,
                    <<Closure(op, IF e.cb = Fn("noop") THEN "noop" ELSE "user",
                              e.cb, 0, <<>>)>>,
                    <<>>, Returned(Undef), NoCursor)
        ELSE IF ~out.ok
        THEN Settle(c, EmptyHeap, EmptyHeap, <<>>, <<e>>, Thrown(Err), <<>>,
                    <<>>, Thrown(Err), NoCursor)
        ELSE Settle(c, EmptyHeap, EmptyHeap, <<>>, <<e>>, Returned(Undef), <<>>,
                    <<>>, Returned(Undef), NoCursor)

DropCollection ==
    /\ Idle
    /\ \E g \in DropGiven, out \in Outcomes : DropCall("dropCollection", g, out)

RemoveCollection ==
    /\ Idle
    /\ \E g \in DropGiven, out \in Outcomes : DropCall("removeCollection", g, out)

(***************************************************************************)
(* EJDB.prototype.command.                                                 *)
(***************************************************************************)
CommandGiven == [cb : {Omitted, UserCb}]
CommandArgs(g) == <<Obj("cmd")>> \o Opt(g.cb)

Command ==
    /\ Idle
    /\ \E g \in CommandGiven, out \in Outcomes :
        LET args == CommandArgs(g)
            c == [op |-> "command", args |-> args, given |-> g]
            e(f) == [fn |-> "command", cmd |-> Arg(args, 0), cb |-> f]
            sync == FindOneSync(NewCursor(out.n))
        IN  IF Truthy(Arg(args, 1))
            THEN Settle(c, EmptyHeap, EmptyHeap, <<>>, <<e(Fn("command"))>>,
                        AsyncStarted,
                        <<Closure("command", "wrapper", Arg(args, 1), 0, <<>>)>>,
                        <<>>, Returned(Undef), NoCursor)
            ELSE IF ~out.ok
            THEN Settle(c, EmptyHeap, EmptyHeap, <<>>, <<e(Omitted)>>,
                        Thrown(Err), <<>>, <<>>, Thrown(Err), NoCursor)
            ELSE Settle(c, EmptyHeap, EmptyHeap, <<>>, <<e(Omitted)>>,
                        Returned(CursorVal), <<>>, <<>>,
                        Returned(sync.ret), sync.cursor)

(***************************************************************************)
(* EJDB.prototype.close and EJDB.prototype.load hand their arguments to    *)
(* the engine as they are.                                                 *)
(***************************************************************************)
PassGiven == [cb : {Omitted, UserCb}]

PassCall(op, args, g, out, value) ==
    LET c == [op |-> op, args |-> args, given |-> g]
        cb == Arg(args, Len(args) - 1)
        e == [fn |-> op, cb |-> IF g.cb = Omitted THEN Undef ELSE cb]
    IN  IF TypeOf(e.cb) = "function"
        THEN Settle(c, EmptyHeap, EmptyHeap, <<>>, <<e>>, AsyncStarted,
                    <<Closure(op, "user", e.cb, 0, <<>>)>>,
                    <<>>, Returned(Undef), NoCursor)
        ELSE IF ~out.ok
        THEN Settle(c, EmptyHeap, EmptyHeap, <<>>, <<e>>, Thrown(Err), <<>>,
                    <<>>, Thrown(Err), NoCursor)
        ELSE Settle(c, EmptyHeap, EmptyHeap, <<>>, <<e>>, Returned(value), <<>>,
                    <<>>, Returned(value), NoCursor)

Close ==
    /\ Idle
    /\ \E g \in PassGiven, out \in Outcomes :
        PassCall("close", Opt(g.cb), g, out, Undef)

Load ==
    /\ Idle
    /\ \E g \in PassGiven, out \in Outcomes :
        PassCall("load", <<Str("c"), Oid(-1)>> \o Opt(g.cb), g, out,
                 IF out.n = 0 THEN Null ELSE Rec(1))

(***************************************************************************)
(* EJDB.isValidOID.                                                        *)
(***************************************************************************)
OIDLen == 24
HexChars == {"0", "1", "2", "3", "4", "5", "6", "7", "8", "9",
             "a", "b", "c", "d", "e", "f"}

\* ToNumber of a one-character string: the empty set stands for NaN
CharToNumber(ch) ==
    CASE ch = "0" -> {0} [] ch = "1" -> {1} [] ch = "2" -> {2} [] ch = "3" -> {3}
      [] ch = "4" -> {4} [] ch = "5" -> {5} [] ch = "6" -> {6} [] ch = "7" -> {7}
      [] ch = "8" -> {8} [] ch = "9" -> {9} [] ch = " " -> {0}
      [] OTHER -> {}

\* ToNumber(oid[i]); oid[i] is undefined, hence NaN, beyond the end
CharNumberAt(cs, i) == IF i < Len(cs) THEN CharToNumber(cs[i + 1]) ELSE {}

\* (oid[i] >= 0x30 && oid[i] <= 0x39) || (oid[i] >= 0x61 && oid[i] <= 0x66):
\* a string compared with a number is converted to a number first, and any
\* comparison with NaN is false
LoopCondition(cs, i) ==
    \E x \in CharNumberAt(cs, i) : (x >= 48 /\ x <= 57) \/ (x >= 97 /\ x <= 102)

\* for (; <condition>; ++i); the value of i when the loop ends
RECURSIVE ScanOID(_, _)
ScanOID(cs, i) == IF LoopCondition(cs, i) THEN ScanOID(cs, i + 1) ELSE i

IsValidOIDResult(oid) ==
    IF TypeOf(oid) # "string" \/ Len(oid.chars) # OIDLen THEN FALSE
    ELSE ScanOID(oid.chars, 0) = OIDLen

\* the strings tried: one character repeated, with another character in
\* the first or the last place
OIDChars == {"0", "9", "a", "f", "g", " "}
OIDLengths == {0, OIDLen - 1, OIDLen, OIDLen + 1}
OIDStrings ==
    {Chars([i \in 1..n |-> IF i = p THEN d ELSE ch]) :
        n \in OIDLengths, ch \in OIDChars, d \in OIDChars, p \in {1, OIDLen}}
OIDInputs == OIDStrings \cup {Undef, Null, Num(OIDLen), Obj("q")}

IsValidOID ==
    /\ Idle
    /\ \E oid \in OIDInputs :
        Settle([op |-> "isValidOID", args |-> <<oid>>, given |-> [cb |-> Omitted]],
               EmptyHeap, EmptyHeap, <<>>, <<>>, NoResult, <<>>, <<>>,
               Returned(Bool(IsValidOIDResult(oid))), NoCursor)

(***************************************************************************)
(* EJDB.open.                                                              *)
(***************************************************************************)
JBOWRITER == 2
JBOCREAT == 4
\* JBOWRITER | JBOCREAT: the two flags are different bits
DEFAULT_OPEN_MODE == Num(JBOWRITER + JBOCREAT)
\* new EJDB()
Wrapper == Obj("db")

\* the number a string converts to: no number (NaN) unless it is a numeral
StringToNumber(s) ==
    CASE s = "6" -> [nan |-> FALSE, n |-> 6]
      [] s = "0" -> [nan |-> FALSE, n |-> 0]
      [] OTHER -> [nan |-> TRUE, n |-> 0]

\* the number a value converts to when it is compared with a number
ToNumber(v) ==
    CASE v.t = "number" -> [nan |-> FALSE, n |-> v.n]
      [] v.t = "boolean" -> [nan |-> FALSE, n |-> IF v.b THEN 1 ELSE 0]
      [] v.t = "null" -> [nan |-> FALSE, n |-> 0]
      [] v.t = "string" -> StringToNumber(v.s)
      [] OTHER -> [nan |-> TRUE, n |-> 0]

\* (openMode > 0) ? openMode : DEFAULT_OPEN_MODE
OpenMode_NotNegative(openMode) ==
    IF ~ToNumber(openMode).nan /\ ToNumber(openMode).n >= 0
    THEN openMode ELSE DEFAULT_OPEN_MODE

OpenMode(openMode) ==
    IF ~ToNumber(openMode).nan /\ ToNumber(openMode).n > 0
    THEN openMode ELSE DEFAULT_OPEN_MODE

OpenModes ==
    {Num(0), Num(-1), Num(1), Num(5), Null, Undef, Bool(TRUE), Bool(FALSE),
     Str("rw"), Str("6"), Str("0"), Obj("q")}
OpenGiven ==
    {g \in [openMode : {Omitted} \cup OpenModes, cb : {Omitted, UserCb}] :
        g.openMode = Omitted => g.cb = Omitted}
OpenArgs(g) == <<Str("f")>> \o Opt(g.openMode) \o Opt(g.cb)

\* function (err) { cb(err, db); }
OpenCallback(out) == <<<<IF out.ok THEN Null ELSE Err, Wrapper>>>>

Open ==
    /\ Idle
    /\ \E g \in OpenGiven, out \in Outcomes :
        LET args == OpenArgs(g)
            c == [op |-> "open", args |-> args, given |-> g]
            e(f) == [fn |-> "open", dbFile |-> Arg(args, 0),
                     mode |-> OpenMode(Arg(args, 1)), cb |-> f]
        IN  IF Truthy(Arg(args, 2))
            THEN Settle(c, EmptyHeap, EmptyHeap, <<>>, <<e(Fn("open"))>>,
                        AsyncStarted,
                        <<Closure("open", "wrapper", Arg(args, 2), 0, <<>>)>>,
                        <<>>, Returned(Undef), NoCursor)
            ELSE IF ~out.ok
            THEN Settle(c, EmptyHeap, EmptyHeap, <<>>, <<e(Omitted)>>,
                        Thrown(Err), <<>>, <<>>, Thrown(Err), NoCursor)
            ELSE Settle(c, EmptyHeap, EmptyHeap, <<>>, <<e(Omitted)>>,
                        Returned(Undef), <<>>, <<>>, Returned(Wrapper), NoCursor)

(***************************************************************************)
(* The engine answers an asynchronous call: it calls the function it was   *)
(* given with (err, ...).                                                  *)
(***************************************************************************)
\* what the engine passes besides err to a function of the caller
DirectCbArgs(p, out) ==
    IF p.op = "find" THEN QueryCbArgs(p.flags, out)
    ELSE IF ~out.ok THEN <<Err>>
    ELSE IF p.op = "load" THEN <<Null, IF out.n = 0 THEN Null ELSE Rec(1)>>
    ELSE <<Null>>

Answer(out, oids) ==
    [kind |-> "callback", v |-> IF out.ok THEN Null ELSE Err, n |-> out.n,
     oids |-> oids]

\* threw: the caller's callback threw when the wrapper invoked it
Respond(h, log, cur, er, threw) ==
    /\ heap' = h
    /\ cbLog' = log
    /\ cursor' = cur
    /\ eres' = er
    /\ raised' = threw
    /\ pending' = <<>>
    /\ UNCHANGED <<call, heap0, qa, engine, ret, tx, colls>>

\* An exception of the caller's callback leaves the wrapper's function at
\* the invocation; in findOne and command the invocation stands in a try
\* block whose finally block closes the cursor, so the cursor is closed
\* whether the callback throws or not.
EngineRespond ==
    /\ pending # <<>>
    /\ \E out \in Outcomes, throws \in BOOLEAN :
        LET p == pending[1]
            oids == EngineSaveOids(heap, p.jsarr)
            handed == IF out.ok /\ p.flags # JBQRYCOUNT THEN NewCursor(out.n)
                      ELSE NoCursor
            one == FindOneCallback(out, handed)
            saved == SaveCallback(heap, p.jsarr, out.ok, oids)
        IN  IF p.to = "noop"
            THEN Respond(heap, cbLog, cursor, Answer(out, <<>>), FALSE)
            ELSE IF p.to = "user"
            THEN Respond(heap, Append(cbLog, DirectCbArgs(p, out)),
                         IF p.op = "find" THEN handed ELSE NoCursor,
                         Answer(out, <<>>), FALSE)
            ELSE IF p.op = "save"
            THEN Respond(saved.heap, cbLog \o saved.calls, NoCursor,
                         Answer(out, oids), throws)
            ELSE IF p.op \in {"findOne", "command"}
            THEN Respond(heap, cbLog \o one.calls, one.cursor,
                         Answer(out, <<>>), throws)
            ELSE IF p.op = "open"
            THEN Respond(heap, cbLog \o OpenCallback(out), NoCursor,
                         Answer(out, <<>>), throws)
            ELSE Respond(heap, cbLog \o CountCallback(out), NoCursor,
                         Answer(out, <<>>), throws)

Next ==
    \/ Find
    \/ FindOne
    \/ Update
    \/ Count
    \/ Save
    \/ DropCollection
    \/ RemoveCollection
    \/ Command
    \/ Close
    \/ Load
    \/ IsValidOID
    \/ Open
    \/ EngineRespond

Spec == Init /\ [][Next]_vars

(***************************************************************************)
(* The engine's state behind the wrapper: calls follow one another, each   *)
(* runs in the engine at once (blocking form) or when the engine gets to   *)
(* it (callback form).                                                     *)
(***************************************************************************)
SettleEngine(c, e, er, p, log, r, t, cs) ==
    /\ call' = c
    /\ engine' = e
    /\ eres' = er
    /\ pending' = p
    /\ cbLog' = log
    /\ ret' = r
    /\ tx' = t
    /\ colls' = cs
    /\ UNCHANGED <<heap0, heap, qa, cursor, raised>>

(***************************************************************************)
(* beginTransaction, commitTransaction, rollbackTransaction and            *)
(* getTransactionStatus: this._impl._txctl(cname, command, cb).            *)
(***************************************************************************)
cmdTxBegin == 8
cmdTxAbort == 9
cmdTxCommit == 10
cmdTxStatus == 11
StateError == [t |-> "error", kind |-> "StateError"]
TxOps == {"beginTransaction", "commitTransaction", "rollbackTransaction",
          "getTransactionStatus"}

\* the command each method passes to _txctl
TxCommand_RollbackAsStatus(op) ==
    CASE op = "beginTransaction" -> cmdTxBegin
      [] op = "commitTransaction" -> cmdTxCommit
      [] op = "rollbackTransaction" -> cmdTxStatus
      [] op = "getTransactionStatus" -> cmdTxStatus

TxCommand(op) ==
    CASE op = "beginTransaction" -> cmdTxBegin
      [] op = "commitTransaction" -> cmdTxCommit
      [] op = "rollbackTransaction" -> cmdTxAbort
      [] op = "getTransactionStatus" -> cmdTxStatus

\* the engine's transaction control of collection c: the transactions
\* afterwards, the error and the value answered
TxCtl(txs, c, cmd) ==
    CASE cmd = cmdTxBegin ->
            IF txs[c] > 0 THEN [tx |-> txs, err |-> StateError, val |-> Undef]
            ELSE [tx |-> [txs EXCEPT ![c] = @ + 1], err |-> Null, val |-> Undef]
      [] cmd \in {cmdTxCommit, cmdTxAbort} ->
            IF txs[c] = 0 THEN [tx |-> txs, err |-> StateError, val |-> Undef]
            ELSE [tx |-> [txs EXCEPT ![c] = @ - 1], err |-> Null, val |-> Undef]
      [] OTHER -> [tx |-> txs, err |-> Null, val |-> Bool(txs[c] > 0)]

TxGiven == [cname : {Str(c) : c \in CollNames}, cb : {Omitted, UserCb}]

TxCall(op) ==
    /\ pending = <<>>
    /\ \E g \in TxGiven :
        LET args == <<g.cname>> \o Opt(g.cb)
            c == [op |-> op, args |-> args, given |-> g]
            e == [fn |-> "_txctl", cname |-> Arg(args, 0), cmd |-> TxCommand(op),
                  cb |-> Arg(args, 1)]
            r == TxCtl(tx, e.cname.s, e.cmd)
        IN  IF TypeOf(e.cb) = "function"
            THEN SettleEngine(c, <<e>>, AsyncStarted, <<e>>, <<>>,
                              Returned(Undef), tx, colls)
            ELSE IF r.err # Null
            THEN SettleEngine(c, <<e>>, Thrown(r.err), <<>>, <<>>,
                              Thrown(r.err), r.tx, colls)
            ELSE SettleEngine(c, <<e>>, Returned(r.val), <<>>, <<>>,
                              Returned(r.val), r.tx, colls)

BeginTransaction == TxCall("beginTransaction")
CommitTransaction == TxCall("commitTransaction")
RollbackTransaction == TxCall("rollbackTransaction")
GetTransactionStatus == TxCall("getTransactionStatus")

(***************************************************************************)
(* EJDB.prototype.ensureCollection.                                        *)
(***************************************************************************)
DefaultCopts == Obj("dcopts")
EnsureGiven ==
    [cname : {Str(c) : c \in CollNames},
     copts : {Omitted, Null, Obj("copts1"), Obj("copts2")},
     cb : {Omitted, UserCb}]
EnsureArgs(g) == <<g.cname>> \o Opt(g.copts) \o Opt(g.cb)

\* the arguments of this._impl.ensureCollection(cname, copts || {}, cb)
EnsureEngineCall_NoSwap(args) ==
    [fn |-> "ensureCollection", cname |-> Arg(args, 0),
     copts |-> OrElse(Arg(args, 1), DefaultCopts), cb |-> Arg(args, 2)]

EnsureEngineCall(args) ==
    LET swap == Len(args) = 2 /\ TypeOf(Arg(args, 1)) = "function"
        cb == IF swap THEN Arg(args, 1) ELSE Arg(args, 2)
        copts == IF swap THEN DefaultCopts ELSE Arg(args, 1)
    IN  [fn |-> "ensureCollection", cname |-> Arg(args, 0),
         copts |-> OrElse(copts, DefaultCopts), cb |-> cb]

\* the engine's ensureCollection: the existing collection as it is, else a
\* new one under the options
EnsureColl(cs, c, copts) == IF cs[c] # Absent THEN cs ELSE [cs EXCEPT ![c] = copts]

EnsureCollection ==
    /\ pending = <<>>
    /\ \E g \in EnsureGiven :
        LET args == EnsureArgs(g)
            c == [op |-> "ensureCollection", args |-> args, given |-> g]
            e == EnsureEngineCall(args)
        IN  IF TypeOf(e.cb) = "function"
            THEN SettleEngine(c, <<e>>, AsyncStarted, <<e>>, <<>>,
                              Returned(Undef), tx, colls)
            ELSE SettleEngine(c, <<e>>, Returned(Undef), <<>>, <<>>,
                              Returned(Undef), tx, EnsureColl(colls, e.cname.s, e.copts))

\* the engine gets to the asynchronous call and calls back with (err, value)
EngineAnswer ==
    /\ pending # <<>>
    /\ LET e == pending[1]
           r == TxCtl(tx, e.cname.s, e.cmd)
       IN  IF e.fn = "_txctl"
           THEN SettleEngine(call, engine,
                             [kind |-> "callback", v |-> r.err], <<>>,
                             <<IF r.err # Null THEN <<r.err>>
                               ELSE IF e.cmd = cmdTxStatus THEN <<Null, r.val>>
                               ELSE <<Null>>>>,
                             ret, r.tx, colls)
           ELSE SettleEngine(call, engine,
                             [kind |-> "callback", v |-> Null], <<>>,
                             <<<<Null>>>>, ret, tx,
                             EnsureColl(colls, e.cname.s, e.copts))

NextEngine ==
    \/ BeginTransaction
    \/ CommitTransaction
    \/ RollbackTransaction
    \/ GetTransactionStatus
    \/ EnsureCollection
    \/ EngineAnswer

SpecEngine == Init /\ [][NextEngine]_vars

(***************************************************************************)
(* Properties.                                                             *)
(***************************************************************************)
QueryOps == {"find", "findOne", "update", "count"}

\* the argument the caller supplied, or the default that stands for it
Default(v, d) == IF v = Omitted THEN d ELSE v

\* the last call was a query call that threw on its arguments
ArgsRejected == call.op \in QueryOps /\ qa = <<>>

\* the last call was a query call that reached the engine
QueryMade == call.op \in QueryOps /\ engine # <<>>

\* C1: in each of the five documented call shapes of find, findOne, update
\* and count, with or without a trailing callback, parseQueryArgs returns
\* [cname, qobj, orarr, hints, cb] with every supplied argument in its own
\* slot and {} , [], {} and null for an omitted qobj, orarr, hints and cb.
C1_CanonicalTuple ==
    (call.op \in QueryOps /\ TypeOf(call.given.cname) = "string") =>
        qa = <<call.given.cname,
               Default(call.given.q, DefaultQobj),
               Default(call.given.or, DefaultOrarr),
               Default(call.given.h, DefaultHints),
               Default(call.given.cb, Null)>>

C1_Witness ==
    /\ call.op = "find"
    /\ Len(call.args) = 5
    /\ qa = <<Str("c"), Obj("q"), call.given.or, Obj("h"), UserCb>>
    /\ Len(qa[3].elems) = 2

\* C2: the document list every find, findOne, update and count call passes
\* to the engine's query is the match document, then the OR-branch documents
\* in their order, then the hints document: |orBranches| + 2 documents, and
\* [qobj, {}] when orarr and hints are omitted.
C2_DocumentList ==
    QueryMade =>
        /\ engine[1].docs = <<qa[2]>> \o qa[3].elems \o <<qa[4]>>
        /\ Len(engine[1].docs) = Len(qa[3].elems) + 2
        /\ (call.given.q # Omitted /\ call.given.or = Omitted
                /\ call.given.h = Omitted) =>
            engine[1].docs = <<call.given.q, DefaultHints>>

C2_Witness ==
    /\ call.op = "update"
    /\ engine # <<>>
    /\ engine[1].docs = <<Obj("q"), Obj("b1"), Obj("b2"), Obj("h")>>

\* the documents handed to the engine by the last save, the OIDs the engine
\* answered with, and whether the save succeeded
SaveDone ==
    /\ call.op = "save"
    /\ engine # <<>>
    /\ \/ eres.kind = "return"
       \/ eres.kind = "callback" /\ eres.v = Null
SavedElems == engine[1].jsarr.elems
SavedOids == IF eres.kind = "return" THEN eres.v.elems ELSE eres.oids

\* a single object is saved as a one-element array, the fields other than
\* _id stay as they were, and so does an object that carried its OID
SaveFrame ==
    /\ ~IsArray(call.given.jsarr) => SavedElems = <<call.given.jsarr>>
    /\ \A r \in Refs : \A k \in Keys \ {"_id"} : heap[r][k] = heap0[r][k]
    /\ \A i \in 1..Len(SavedElems) :
        (SavedElems[i].t = "object"
            /\ heap0[SavedElems[i].ref]["_id"] = SavedOids[i]) =>
                heap[SavedElems[i].ref] = heap0[SavedElems[i].ref]

\* C3 as stated: after a successful save every non-null object of the
\* input has, at every index i it stands at, the i-th OID of the engine as
\* its _id.
C3_IdAtEveryIndex ==
    SaveDone =>
        /\ SaveFrame
        /\ \A i \in 1..Len(SavedElems) :
            SavedElems[i].t = "object" =>
                heap[SavedElems[i].ref]["_id"] = SavedOids[i]

\* C3, amended: after a successful save every non-null object of the input
\* has as its _id the OID the engine returned for the lowest index the
\* object stands at; a single object is treated as a one-element array and
\* objects that already carried that _id are left unchanged.
C3_IdOfFirstOccurrence ==
    SaveDone =>
        /\ SaveFrame
        /\ \A i \in 1..Len(SavedElems) :
            (SavedElems[i].t = "object"
                /\ \A j \in 1..(i - 1) : SavedElems[j] # SavedElems[i]) =>
                    heap[SavedElems[i].ref]["_id"] = SavedOids[i]

C3_Witness ==
    /\ SaveDone
    /\ Len(SavedElems) = 2
    /\ SavedElems[1] = SavedElems[2]
    /\ SavedElems[1].t = "object"
    /\ heap0[SavedElems[1].ref]["_id"] = Undef
    /\ heap[SavedElems[1].ref]["_id"] = SavedOids[1]
    /\ SavedOids[1] # SavedOids[2]

\* C4: without a callback save returns the array of the OIDs of the saved
\* objects, one per input document in input order.
C4_SyncSaveReturnsOids ==
    (call.op = "save" /\ eres.kind = "return") =>
        /\ ret.kind = "return"
        /\ IsArray(ret.v)
        /\ ret.v.elems = eres.v.elems

\* C5: isValidOID(oid) is true exactly when oid is a string of 24
\* characters, each a digit or a lowercase letter a to f.
C5_ValidOIDIffHex24 ==
    call.op = "isValidOID" =>
        LET oid == call.args[1] IN
        ret.v = Bool(/\ TypeOf(oid) = "string"
                     /\ Len(oid.chars) = OIDLen
                     /\ \A i \in 1..Len(oid.chars) : oid.chars[i] \in HexChars)

\* C6: every operation of the wrapper makes a blocking engine call, passing
\* no function to the engine, when it is called without a callback, and an
\* asynchronous engine call when it is called with one.
C6_BlockingIffNoCallback ==
    (call.op \notin {"none", "isValidOID"} /\ ~ArgsRejected) =>
        /\ Len(engine) = 1
        /\ (TypeOf(engine[1].cb) = "function") <=> (call.given.cb # Omitted)

\* C7: the engine's removeCollection receives prune = true exactly when the
\* caller of dropCollection or removeCollection supplied a truthy prune, in
\* every arity of the call.
C7_PruneForwarded ==
    call.op \in {"dropCollection", "removeCollection"} =>
        engine[1].prune = (call.given.prune # Omitted /\ Truthy(call.given.prune))

\* the first record of a cursor of n records, null when it has none
FirstOf(n) == IF n > 0 THEN Rec(1) ELSE Null

\* C8: findOne returns, or delivers to its callback, the first record of
\* the engine's cursor, or null when the cursor has none; the hints document
\* it sends has $max = 1 whatever $max the caller supplied, and it never
\* asks for count-only mode.
C8_FindOneFirstRecord ==
    (call.op = "findOne" /\ engine # <<>>) =>
        /\ engine[1].flags # JBQRYCOUNT
        /\ engine[1].docs[Len(engine[1].docs)] = Default(call.given.h, DefaultHints)
        /\ engine[1].vals[Len(engine[1].docs)]["$max"] = Num(1)
        /\ (call.given.cb = Omitted /\ ret.kind = "return") =>
                ret.v = FirstOf(cursor.len)
        /\ (eres.kind = "callback" /\ eres.v = Null) =>
                cbLog = <<<<Null, FirstOf(eres.n)>>>>

C8_Witness ==
    /\ call.op = "findOne"
    /\ call.given.h # Omitted
    /\ heap0["h"]["$max"] = Num(5)
    /\ eres.kind = "callback"
    /\ eres.n = 2
    /\ cbLog = <<<<Null, Rec(1)>>>>
    /\ engine[1].vals[Len(engine[1].docs)]["$max"] = Num(1)

\* C9: find passes the count-only flag exactly when the normalized hints
\* document has a truthy $onlycount, update and count pass it always, and
\* findOne never.
C9_CountOnlyFlag ==
    QueryMade =>
        /\ call.op = "find" =>
            ((engine[1].flags = JBQRYCOUNT)
                <=> Truthy(Deref(heap0, qa[4])["$onlycount"]))
        /\ call.op = "find" => engine[1].flags \in {0, JBQRYCOUNT}
        /\ call.op \in {"update", "count"} => engine[1].flags = JBQRYCOUNT
        /\ call.op = "findOne" => engine[1].flags = 0

C9_Witness ==
    /\ call.op = "update"
    /\ engine # <<>>
    /\ call.given.h # Omitted
    /\ heap0["h"]["$onlycount"] = Bool(FALSE)
    /\ engine[1].flags = JBQRYCOUNT

\* the result the engine answered with, as the callback of the last call
\* is to receive it
Delivered ==
    CASE call.op = "save" -> Arr("oids", eres.oids)
      [] call.op \in {"findOne", "command"} -> FirstOf(eres.n)
      [] OTHER -> Num(eres.n)

\* C10: in callback form the caller's callback of save, findOne, command,
\* update and count is invoked exactly once for the engine's response: with
\* the engine's error first when there is one, and then no cursor method is
\* called and no _id is modified; otherwise with null first and the result
\* (the OIDs, the record or null, the count) second.
C10_CallbackOnce ==
    (call.op \in {"save", "findOne", "command", "update", "count"}
            /\ call.given.cb # Omitted /\ engine # <<>>) =>
        /\ pending # <<>> => cbLog = <<>>
        /\ eres.kind = "callback" =>
            /\ Len(cbLog) = 1
            /\ eres.v = Err =>
                /\ cbLog[1][1] = Err
                /\ cursor.log = <<>>
                /\ \A r \in Refs : heap[r]["_id"] = heap0[r]["_id"]
            /\ eres.v = Null =>
                /\ cbLog[1][1] = Null
                /\ cbLog[1][2] = Delivered

C10_Witness ==
    /\ call.op = "save"
    /\ eres.kind = "callback"
    /\ eres.v = Err
    /\ cbLog = <<<<Err>>>>
    /\ Len(engine[1].jsarr.elems) = 2
    /\ heap = heap0

\* the error the last call surfaced to its caller: thrown in blocking form,
\* the callback's first argument in callback form
Surfaced ==
    IF call.given.cb = Omitted
    THEN IF ret.kind = "throw" THEN ret.v ELSE Null
    ELSE IF cbLog # <<>> THEN cbLog[1][1] ELSE Null

\* the value the last call delivered: returned in blocking form, the
\* callback's second argument in callback form
DeliveredValue ==
    IF call.given.cb = Omitted THEN ret.v
    ELSE IF cbLog # <<>> /\ Len(cbLog[1]) > 1 THEN cbLog[1][2] ELSE Undef

\* the step completes a call of one of the methods ops in the engine
Completes(ops) == pending' = <<>> /\ call'.op \in ops

\* C11: per collection a transaction is inactive or active: beginTransaction
\* moves inactive to active, commitTransaction and rollbackTransaction move
\* active to inactive, getTransactionStatus reads the state and leaves it, a
\* beginTransaction while active fails with StateError and leaves the state
\* active; so at most one transaction is ever active per collection.
C11_Step ==
    Completes(TxOps) =>
        LET c == call'.given.cname.s IN
        /\ \A d \in CollNames \ {c} : tx'[d] = tx[d]
        /\ tx[c] <= 1 /\ tx'[c] <= 1
        /\ call'.op = "beginTransaction" =>
            IF tx[c] = 0 THEN tx'[c] = 1 /\ Surfaced' = Null
            ELSE tx'[c] = 1 /\ Surfaced' = StateError
        /\ (call'.op \in {"commitTransaction", "rollbackTransaction"}
                /\ tx[c] = 1) => (tx'[c] = 0 /\ Surfaced' = Null)
        /\ call'.op = "getTransactionStatus" =>
            /\ tx' = tx
            /\ Surfaced' = Null
            /\ DeliveredValue' = Bool(tx[c] = 1)
        /\ UNCHANGED colls

C11_TransactionStateMachine == [][C11_Step]_vars

C11_Witness ==
    /\ call.op = "beginTransaction"
    /\ call.given.cname = Str("c")
    /\ call.given.cb # Omitted
    /\ pending = <<>>
    /\ cbLog = <<<<StateError>>>>
    /\ tx["c"] = 1

\* C12: ensureCollection leaves the collections and the creation options of
\* an existing collection as they are, whatever options are supplied, and
\* creates exactly one collection, under the supplied options, for an absent
\* name; the engine always receives an options object, {} when the options
\* are omitted or the second argument is the callback.
C12_Step ==
    Completes({"ensureCollection"}) =>
        LET c == call'.given.cname.s
            g == call'.given
            copts == engine'[1].copts
        IN  /\ copts.t = "object"
            /\ copts = IF g.copts \in {Omitted, Null} THEN DefaultCopts ELSE g.copts
            /\ (TypeOf(engine'[1].cb) = "function") <=> (g.cb # Omitted)
            /\ colls[c] # Absent => colls' = colls
            /\ colls[c] = Absent => colls' = [colls EXCEPT ![c] = copts]
            /\ UNCHANGED tx

C12_EnsureCollectionIdempotent == [][C12_Step]_vars

C12_Witness ==
    /\ call.op = "ensureCollection"
    /\ call.given.cname = Str("c")
    /\ call.given.copts = Obj("copts2")
    /\ pending = <<>>
    /\ colls["c"] = Obj("copts1")
    /\ colls["d"] = DefaultCopts

\* the cursor operations op among the operations log made on a cursor
Times(log, op) == Cardinality({i \in 1..Len(log) : log[i] = op})

\* findOne or command has run to its end on a cursor the engine handed out
CursorHanded ==
    /\ call.op \in {"findOne", "command"}
    /\ pending = <<>>
    /\ cursor.exists

\* the record findOne or command delivered, Null when it delivered none
RecordDelivered ==
    IF call.given.cb = Omitted THEN ret.v
    ELSE IF cbLog # <<>> /\ Len(cbLog[1]) > 1 THEN cbLog[1][2] ELSE Null

\* C13: findOne and command close every cursor the engine hands them exactly
\* once, in blocking and in callback form, whether the cursor holds a record
\* or is empty, and also when the caller's callback throws.
C13_CursorClosedOnce == CursorHanded => Times(cursor.log, "close") = 1

\* C14: findOne and command make no next() or object() on a cursor after its
\* close(): the close() is the last operation on the cursor, and the
\* object() that fetched a delivered record stands before it.
C14_NoUseAfterClose ==
    CursorHanded =>
        /\ \A i \in 1..Len(cursor.log) :
            cursor.log[i] = "close" => i = Len(cursor.log)
        /\ RecordDelivered.t = "record" =>
            \E i \in 1..Len(cursor.log) :
                /\ cursor.log[i] = "object"
                /\ \A j \in 1..Len(cursor.log) : cursor.log[j] = "close" => i < j

C14_Witness ==
    /\ call.op = "findOne"
    /\ call.given.cb = Omitted
    /\ pending = <<>>
    /\ ret = Returned(Rec(1))
    /\ cursor.log = <<"next", "object", "close">>

\* C15: every save given a callback invokes it in the end, whatever the
\* documents argument is, also null, undefined and other falsy values; here:
\* once the call has returned and no engine call of it is outstanding, the
\* callback has been invoked.
C15_SaveCallbackInvoked ==
    (call.op = "save" /\ call.given.cb # Omitted /\ pending = <<>>) =>
        cbLog # <<>>

\* C16: find, findOne, update and count leave the caller's query object and
\* hints object with the keys and values they had before the call, and pass
\* the caller's array of OR branches on with the elements it had.
C16_ArgumentsUnchanged ==
    call.op \in QueryOps =>
        /\ heap["q"] = heap0["q"]
        /\ heap["h"] = heap0["h"]
        /\ (QueryMade /\ call.given.or # Omitted) => qa[3] = call.given.or

\* C17: find, findOne, update and count given a first argument that is not a
\* string throw before any engine call: no query reaches the engine, no
\* callback is invoked and no argument is modified.
C17_NonStringNameThrowsFirst ==
    (call.op \in QueryOps /\ TypeOf(call.given.cname) # "string") =>
        /\ ret = Thrown(Err)
        /\ engine = <<>>
        /\ pending = <<>>
        /\ cbLog = <<>>
        /\ cursor = NoCursor
        /\ heap = heap0

C17_Witness ==
    /\ call.op = "findOne"
    /\ call.given.cname = Undef
    /\ call.given.h = Obj("h")
    /\ call.given.cb = UserCb
    /\ ret = Thrown(Err)
    /\ heap["h"]["$max"] = Num(5)

\* EJDB.open has handed the wrapper to its caller as stated: returned in
\* blocking form; in callback form undefined is returned and the wrapper is
\* the second argument of the one invocation of the callback
WrapperHandedOver ==
    IF call.given.cb = Omitted
    THEN ret.kind = "return" => ret.v = Wrapper
    ELSE /\ ret = Returned(Undef)
         /\ pending = <<>> => (Len(cbLog) = 1 /\ cbLog[1][2] = Wrapper)

\* C18 as stated: EJDB.open passes the engine the caller's openMode when it
\* is a number greater than 0 and JBOWRITER | JBOCREAT in every other case;
\* in blocking form it returns the wrapper, in callback form it returns
\* undefined and the wrapper is the callback's second argument.
C18_NumberOrDefault ==
    call.op = "open" =>
        LET m == Default(call.given.openMode, Undef) IN
        /\ engine[1].mode = IF m.t = "number" /\ m.n > 0 THEN m
                            ELSE DEFAULT_OPEN_MODE
        /\ WrapperHandedOver

\* C18: EJDB.open passes the engine the caller's openMode as it is when the
\* comparison openMode > 0 holds for it (a number greater than 0, and also
\* true or a string that is a numeral greater than 0), and JBOWRITER |
\* JBOCREAT in every other case (omitted, undefined, null, false, 0, a
\* negative number, any other string, an object); in blocking form it
\* returns the wrapper, in callback form it returns undefined and the
\* wrapper is the callback's second argument.
C18_OpenModeAndWrapper ==
    call.op = "open" =>
        LET m == Default(call.given.openMode, Undef) IN
        /\ engine[1].mode =
            IF \/ m.t = "number" /\ m.n > 0
               \/ m = Bool(TRUE)
               \/ m = Str("6")
            THEN m ELSE DEFAULT_OPEN_MODE
        /\ WrapperHandedOver

C18_Witness ==
    /\ call.op = "open"
    /\ call.given.openMode = Bool(TRUE)
    /\ call.given.cb = UserCb
    /\ engine[1].mode = Bool(TRUE)
    /\ ret = Returned(Undef)
    /\ cbLog = <<<<Null, Wrapper>>>>

====
